---- MODULE Spec2Model ----
(***************************************************************************)
(* The manual report handler of the error-reporting client                 *)
(* (interfaces/manual.js, reportManualError) and the unhandled-rejection   *)
(* hook installed by the ErrorReporting constructor (src/index.ts).        *)
(*                                                                         *)
(* JavaScript values are records [t, s, n]: t is the type tag the `is`     *)
(* predicates look at, s the string content, n the heap address of an      *)
(* ErrorMessage instance.  ErrorMessage instances live in `heap`; two      *)
(* references are identical iff their addresses are equal.                 *)
(***************************************************************************)
EXTENDS Integers, Sequences, FiniteSets, TLC

VARIABLES
  inst,        \* per ErrorReporting instance: constructed?, option value
  listeners,   \* process 'unhandledRejection' listeners, in registration order
  heap,        \* address -> ErrorMessage fields
  nextId,      \* the next free address
  hist,        \* per address: how it was created and what report did with it
  calls,       \* number of report invocations so far
  pending,     \* callbacks handed to the transport client, not yet completed
  last,        \* observation of the latest report invocation
  lastEvent    \* observation of the latest 'unhandledRejection' event

vars == <<inst, listeners, heap, nextId, hist, calls, pending, last, lastEvent>>

\* Bounds of the model.
MaxPayloads == 1
MaxCalls == 1
MaxRepeats == 2

Instances == {1, 2}
Addresses == 1..MaxPayloads

----------------------------------------------------------------------------
\* JavaScript values

Val(t, s, n) == [t |-> t, s |-> s, n |-> n]
Undefined == Val("undefined", "", 0)
Msg == Val("string", "override", 0)
Cb == Val("function", "cb", 0)
Req == Val("object", "req", 0)
Num == Val("number", "42", 0)
RawErr == Val("error", "boom", 0)
PayloadRef(a) == Val("payload", "", a)

\* The eight documented call shapes: report(err), (err, req), (err, msg),
\* (err, cb), (err, req, msg), (err, req, cb), (err, msg, cb),
\* (err, req, msg, cb).  A missing argument is undefined.
Shape(hasReq, hasMsg, hasCb) ==
  LET given == (IF hasReq THEN <<Req>> ELSE <<>>) \o (IF hasMsg THEN <<Msg>> ELSE <<>>)
               \o (IF hasCb THEN <<Cb>> ELSE <<>>)
  IN [k \in 1..3 |-> IF k <= Len(given) THEN given[k] ELSE Undefined]

CallShapes == {Shape(r, m, c) : r, m, c \in BOOLEAN}

\* Calls outside the documented shapes: every kind of value in every position
Malformed ==
  {<<Num, Undefined, Undefined>>, <<Num, Msg, Cb>>, <<Msg, Num, Undefined>>,
   <<Msg, Msg, Cb>>, <<Req, Req, Msg>>, <<Req, Num, Req>>, <<Cb, Msg, Num>>}

ArgTriples == CallShapes \cup Malformed

\* one argument after err: nothing, a request, a message or a callback
ShortShapes == {Shape(FALSE, FALSE, FALSE), Shape(TRUE, FALSE, FALSE),
                Shape(FALSE, TRUE, FALSE), Shape(FALSE, FALSE, TRUE)}

isString(v) == v.t = "string"
isObject(v) == v.t = "object"
isFunction(v) == v.t = "function"
IsErrorMessage(v) == v.t = "payload"

----------------------------------------------------------------------------
\* Collaborators whose code is outside the handler: ErrorMessage, the
\* configuration, the request extractor, the populator.

Unset == "<unset>"
Keys == {"method", "url", "userAgent"}
EmptyHttp == [k \in Keys |-> ""]
OldHttp == [k \in Keys |-> IF k = "method" THEN "POST" ELSE IF k = "url" THEN "/old" ELSE "UA"]

NewErrorMessage ==
  [message |-> "", hasMarker |-> FALSE, marker |-> "",
   service |-> Unset, version |-> Unset, http |-> EmptyHttp]

getServiceContext(i) ==
  IF i = 1 THEN [service |-> "svc1", version |-> "v1"]
           ELSE [service |-> "svc2", version |-> "v2"]

setMessage(em, m) == [em EXCEPT !.message = m]
setServiceContext(em, s, v) == [em EXCEPT !.service = s, !.version = v]
populateErrorMessage(err, em) == [em EXCEPT !.message = err.s]

\* the extractor yields a partial http context
manualRequestInformationExtractor(request) ==
  IF request = Req THEN [k \in {"method", "url"} |-> IF k = "method" THEN "GET" ELSE "/x"]
  ELSE [k \in {} |-> ""]

consumeRequestInformation(em, info) ==
  [em EXCEPT !.http = [k \in Keys |-> IF k \in DOMAIN info THEN info[k] ELSE em.http[k]]]

\* `if (err._autoGeneratedStackTrace)`: present and not the empty string
HasStackTrace(em) == em.hasMarker /\ em.marker # ""

----------------------------------------------------------------------------
\* reportManualError, step by step.  Every step yields the payload and
\* the calls it made (ops), in order.

ResolveArgsNoShift(request, additionalMessage, callback) ==
  LET s == IF isString(request)
             THEN [request |-> Undefined, additionalMessage |-> request, callback |-> callback]
           ELSE IF isFunction(request)
             THEN [request |-> Undefined, additionalMessage |-> Undefined, callback |-> request]
           ELSE [request |-> request, additionalMessage |-> additionalMessage, callback |-> callback]
  IN IF isFunction(s.additionalMessage)
       THEN [s EXCEPT !.callback = s.additionalMessage, !.additionalMessage = Undefined]
       ELSE s

ResolveArgs(request, additionalMessage, callback) ==
  LET s == IF isString(request)
             THEN [request |-> Undefined, additionalMessage |-> request, callback |-> additionalMessage]
           ELSE IF isFunction(request)
             THEN [request |-> Undefined, additionalMessage |-> Undefined, callback |-> request]
           ELSE [request |-> request, additionalMessage |-> additionalMessage, callback |-> callback]
  IN IF isFunction(s.additionalMessage)
       THEN [s EXCEPT !.callback = s.additionalMessage, !.additionalMessage = Undefined]
       ELSE s

\* lines 82-93: consume the construction-site stack trace, or warn
MarkerStepKeep(em) ==
  IF HasStackTrace(em)
    THEN [em |-> setMessage(em, em.message \o "\n" \o em.marker),
          ops |-> <<"setMessage", "delete">>]
    ELSE [em |-> em, ops |-> <<"warn">>]

MarkerStepSilent(em) ==
  IF HasStackTrace(em)
    THEN [em |-> [setMessage(em, em.message \o "\n" \o em.marker)
                    EXCEPT !.hasMarker = FALSE, !.marker = ""],
          ops |-> <<"setMessage", "delete">>]
    ELSE [em |-> em, ops |-> <<>>]

MarkerStepAlwaysWarn(em) ==
  IF HasStackTrace(em)
    THEN [em |-> [setMessage(em, em.message \o "\n" \o em.marker)
                    EXCEPT !.hasMarker = FALSE, !.marker = ""],
          ops |-> <<"setMessage", "delete", "warn">>]
    ELSE [em |-> em, ops |-> <<"warn">>]

MarkerStep(em) ==
  IF HasStackTrace(em)
    THEN [em |-> [setMessage(em, em.message \o "\n" \o em.marker)
                    EXCEPT !.hasMarker = FALSE, !.marker = ""],
          ops |-> <<"setMessage", "delete">>]
    ELSE [em |-> em, ops |-> <<"warn">>]

\* lines 96-99: a new ErrorMessage for a raw error value
FreshPayloadNoContext(i, err) ==
  [em |-> populateErrorMessage(err, NewErrorMessage),
   ops |-> <<"new", "populate">>]

FreshPayload(i, err) ==
  [em |-> populateErrorMessage(err,
            setServiceContext(NewErrorMessage,
                              getServiceContext(i).service,
                              getServiceContext(i).version)),
   ops |-> <<"new", "setServiceContext", "populate">>]

\* lines 102-104
MergeRequestIfGiven(em, request) ==
  IF request # Undefined
    THEN [em |-> consumeRequestInformation(em, manualRequestInformationExtractor(request)),
          ops |-> <<"extract", "consume">>]
    ELSE [em |-> em, ops |-> <<>>]

MergeRequest(em, request) ==
  IF isObject(request)
    THEN [em |-> consumeRequestInformation(em, manualRequestInformationExtractor(request)),
          ops |-> <<"extract", "consume">>]
    ELSE [em |-> em, ops |-> <<>>]

\* lines 106-108
OverrideMessageAppend(em, additionalMessage) ==
  IF isString(additionalMessage)
    THEN [em |-> setMessage(em, em.message \o additionalMessage.s), ops |-> <<"override">>]
    ELSE [em |-> em, ops |-> <<>>]

OverrideMessage(em, additionalMessage) ==
  IF isString(additionalMessage)
    THEN [em |-> setMessage(em, additionalMessage.s), ops |-> <<"override">>]
    ELSE [em |-> em, ops |-> <<>>]

\* line 110: client.sendError(em, callback); the client keeps a function to
\* call back later
SendErrorIfCallback(waiting, a, em, callback) ==
  IF isFunction(callback)
    THEN [pending |-> waiting \cup {callback},
          sent |-> <<[address |-> a, payload |-> em, callback |-> callback]>>,
          ops |-> <<"sendError">>]
    ELSE [pending |-> waiting, sent |-> <<>>, ops |-> <<>>]

SendError(waiting, a, em, callback) ==
  [pending |-> waiting \cup (IF isFunction(callback) THEN {callback} ELSE {}),
   sent |-> <<[address |-> a, payload |-> em, callback |-> callback]>>,
   ops |-> <<"sendError">>]

\* lines 78, 94, 96: the address of em -- the caller's instance, or a new one
PayloadAddress(next, err) == IF IsErrorMessage(err) THEN err.n ELSE next

Count(ops, op) == Cardinality({k \in DOMAIN ops : ops[k] = op})

NoHist == [origin |-> "none", M |-> "", S |-> "", calls |-> 0, warns |-> 0,
           sends |-> 0, overridden |-> FALSE]

\* The whole of reportManualError on the world W = [heap, nextId, hist,
\* calls, pending]: the new world and what an observer of the call saw.
reportManualError(W, i, err, request, additionalMessage, callback) ==
  LET r == ResolveArgs(request, additionalMessage, callback)
      prebuilt == IsErrorMessage(err)
      a == PayloadAddress(W.nextId, err)
      before == IF prebuilt THEN W.heap[err.n] ELSE NewErrorMessage
      s1 == IF prebuilt THEN MarkerStep(before) ELSE FreshPayload(i, err)
      s2 == MergeRequest(s1.em, r.request)
      s3 == OverrideMessage(s2.em, r.additionalMessage)
      s4 == SendError(W.pending, a, s3.em, r.callback)
      ops == s1.ops \o s2.ops \o s3.ops \o s4.ops
      h == IF W.hist[a].origin = "none"
             THEN [NoHist EXCEPT !.origin = "report", !.M = s1.em.message]
             ELSE W.hist[a]
  IN [W |-> [heap |-> [W.heap EXCEPT ![a] = s3.em],
             nextId |-> IF a = W.nextId THEN W.nextId + 1 ELSE W.nextId,
             hist |-> [W.hist EXCEPT ![a] =
                         [h EXCEPT !.calls = @ + 1,
                                   !.warns = @ + Count(ops, "warn"),
                                   !.sends = @ + Count(ops, "sendError"),
                                   !.overridden = @ \/ isString(r.additionalMessage)]],
             calls |-> W.calls + 1,
             pending |-> s4.pending],
      rec |-> [kind |-> "report", inst |-> i, err |-> err,
               args |-> <<request, additionalMessage, callback>>,
               resolved |-> r, fresh |-> a = W.nextId, before |-> before,
               ops |-> ops,
               sent |-> s4.sent,
               returned |-> a,
               pendingAfter |-> s4.pending]]

\* src/index.ts lines 124-131: the listener of one instance
OnUnhandledRejectionSilent(W, i, reason) ==
  LET res == reportManualError(W, i, reason, Undefined, Undefined, Undefined)
  IN [W |-> res.W, rec |-> res.rec, ops |-> <<"report">>]

OnUnhandledRejection(W, i, reason) ==
  LET res == reportManualError(W, i, reason, Undefined, Undefined, Undefined)
  IN [W |-> res.W, rec |-> res.rec, ops |-> <<"warn", "report">>]

NoObs == [handled |-> FALSE, ops |-> <<>>, warns |-> 0, sends |-> 0,
          args |-> <<>>, err |-> Undefined, markerBefore |-> FALSE, prebuilt |-> FALSE]

\* what an observer of one listener's run saw
Observe(acc, i, res) ==
  [W |-> res.W, rec |-> res.rec,
   obs |-> [acc.obs EXCEPT ![i] =
              [handled |-> TRUE, ops |-> res.ops,
               warns |-> Count(res.ops, "warn") + Count(res.rec.ops, "warn"),
               sends |-> Count(res.rec.ops, "sendError"),
               args |-> res.rec.args, err |-> res.rec.err,
               markerBefore |-> HasStackTrace(res.rec.before),
               prebuilt |-> ~res.rec.fresh]]]

\* process.emit('unhandledRejection', reason): every listener, in
\* registration order, on the world the previous one left
Emit(W, ls, reason, obs, rec) ==
  LET run[k \in 0..Len(ls)] ==
        IF k = 0 THEN [W |-> W, rec |-> rec, obs |-> obs]
        ELSE Observe(run[k - 1], ls[k], OnUnhandledRejection(run[k - 1].W, ls[k], reason))
  IN run[Len(ls)]

----------------------------------------------------------------------------
\* State and actions

NoRec == [kind |-> "none", inst |-> 0, err |-> Undefined,
          args |-> <<Undefined, Undefined, Undefined>>,
          resolved |-> [request |-> Undefined, additionalMessage |-> Undefined,
                        callback |-> Undefined],
          fresh |-> FALSE, before |-> NewErrorMessage, ops |-> <<>>,
          sent |-> <<>>, returned |-> 0, pendingAfter |-> {}]

NoEvent == [kind |-> "none", reason |-> Undefined, enabled |-> {},
            obs |-> [i \in Instances |-> NoObs]]

\* the instances constructed with reportUnhandledRejections set
Enabled == {i \in Instances : inst[i].built /\ inst[i].reportUnhandledRejections}

World == [heap |-> heap, nextId |-> nextId, hist |-> hist, calls |-> calls,
          pending |-> pending]

Init ==
  /\ inst = [i \in Instances |-> [built |-> FALSE, reportUnhandledRejections |-> FALSE]]
  /\ listeners = <<>>
  /\ heap = [a \in Addresses |-> NewErrorMessage]
  /\ nextId = 1
  /\ hist = [a \in Addresses |-> NoHist]
  /\ calls = 0
  /\ pending = {}
  /\ last = NoRec
  /\ lastEvent = NoEvent

\* src/index.ts lines 113-142: new ErrorReporting(initConfiguration)
Construct(i, option) ==
  /\ ~inst[i].built
  /\ inst' = [inst EXCEPT ![i] = [built |-> TRUE, reportUnhandledRejections |-> option]]
  /\ listeners' = IF option THEN Append(listeners, i) ELSE listeners
  /\ UNCHANGED <<heap, nextId, hist, calls, pending, last, lastEvent>>

\* errors.event(): a payload with the service context of the instance and the
\* construction-site stack trace; the caller then sets its message
EventBuilder(i) ==
  /\ inst[i].built
  /\ nextId <= MaxPayloads
  /\ heap' = [heap EXCEPT ![nextId] =
       [setMessage(setServiceContext(NewErrorMessage, getServiceContext(i).service,
                                     getServiceContext(i).version), "M")
          EXCEPT !.hasMarker = TRUE, !.marker = "S"]]
  /\ hist' = [hist EXCEPT ![nextId] = [NoHist EXCEPT !.origin = "event", !.M = "M", !.S = "S"]]
  /\ nextId' = nextId + 1
  /\ UNCHANGED <<inst, listeners, calls, pending, last, lastEvent>>

\* a payload built by hand: no generated stack trace (the field missing, or
\* set to the empty string), any http context
HandBuild(http, emptyMarker) ==
  /\ nextId <= MaxPayloads
  /\ heap' = [heap EXCEPT ![nextId] =
       [setMessage(setServiceContext(NewErrorMessage, "svcH", "vH"), "M")
          EXCEPT !.hasMarker = emptyMarker, !.http = http]]
  /\ hist' = [hist EXCEPT ![nextId] = [NoHist EXCEPT !.origin = "hand", !.M = "M"]]
  /\ nextId' = nextId + 1
  /\ UNCHANGED <<inst, listeners, calls, pending, last, lastEvent>>

\* the hand-built payloads of the model: <<http context, marker set to ''>>
HandBuilt == {<<OldHttp, FALSE>>, <<EmptyHttp, TRUE>>}

Errors == {RawErr} \cup {PayloadRef(a) : a \in 1..(nextId - 1)}

\* the world and the observation a run of the handler leaves behind
Becomes(res) ==
  /\ heap' = res.W.heap
  /\ nextId' = res.W.nextId
  /\ hist' = res.W.hist
  /\ calls' = res.W.calls
  /\ pending' = res.W.pending
  /\ last' = res.rec

\* errors.report(err, a1, a2, a3); `limit` bounds the invocations of a run
Report(limit, i, err, a1, a2, a3) ==
  /\ inst[i].built
  /\ calls < limit
  /\ PayloadAddress(nextId, err) <= MaxPayloads
  /\ Becomes(reportManualError(World, i, err, a1, a2, a3))
  /\ UNCHANGED <<inst, listeners, lastEvent>>

Emitted(reason, res) ==
  /\ Becomes(res)
  /\ lastEvent' = [kind |-> "event", reason |-> reason, enabled |-> Enabled, obs |-> res.obs]

\* a promise is rejected with `reason` and nobody handles it
UnhandledRejection(limit, reason) ==
  /\ calls + Len(listeners) <= limit
  /\ PayloadAddress(nextId, reason) = nextId => nextId + Len(listeners) - 1 <= MaxPayloads
  /\ Emitted(reason, Emit(World, listeners, reason, [i \in Instances |-> NoObs], last))
  /\ UNCHANGED <<inst, listeners>>

\* the transport client completes a submission and calls back
Deliver(c) ==
  /\ c \in pending
  /\ pending' = pending \ {c}
  /\ UNCHANGED <<inst, listeners, heap, nextId, hist, calls, last, lastEvent>>

Setup ==
  \/ \E i \in Instances, option \in BOOLEAN : Construct(i, option)
  \/ \E i \in Instances : EventBuilder(i)
  \/ \E b \in HandBuilt : HandBuild(b[1], b[2])

\* one invocation with any of the call shapes, well-formed or not
Next ==
  \/ Setup
  \/ \E i \in Instances, err \in Errors, a \in ArgTriples : Report(MaxCalls, i, err, a[1], a[2], a[3])
  \/ \E reason \in Errors : UnhandledRejection(MaxCalls, reason)
  \/ \E c \in pending : Deliver(c)

Spec == Init /\ [][Next]_vars

\* repeated invocations, each with at most one optional argument
NextSeq ==
  \/ Setup
  \/ \E i \in Instances, err \in Errors, a \in ShortShapes : Report(MaxRepeats, i, err, a[1], a[2], a[3])
  \/ \E reason \in Errors : UnhandledRejection(MaxRepeats, reason)
  \/ \E c \in pending : Deliver(c)

SpecSeq == Init /\ [][NextSeq]_vars

----------------------------------------------------------------------------
\* Properties

Acted == last.kind = "report"
Sent == last.sent[1]
Prebuilt == IsErrorMessage(last.err)
Warns == Count(last.ops, "warn")
Extractions == Count(last.ops, "extract")

Intended(r, m, c) ==
  [request |-> IF r THEN Req ELSE Undefined,
   additionalMessage |-> IF m THEN Msg ELSE Undefined,
   callback |-> IF c THEN Cb ELSE Undefined]

\* C1: for each of the eight call shapes the resolution puts req in request,
\* msg in additionalMessage and cb in callback, the slots not supplied are
\* absent, and these are the values the rest of the call uses.
C1_ShapesResolve ==
  Acted =>
    \A r, m, c \in BOOLEAN :
      last.args = Shape(r, m, c) =>
        /\ last.resolved = Intended(r, m, c)
        /\ Sent.callback = Intended(r, m, c).callback
        /\ (Extractions = 1) <=> r
        /\ (Count(last.ops, "override") = 1) <=> m

C1_Witness ==
  /\ Acted
  /\ last.args = Shape(FALSE, TRUE, TRUE)
  /\ last.resolved = Intended(FALSE, TRUE, TRUE)

\* C2: a payload created with message M and generated stack trace S has, after
\* any number (at least one) of report calls none of which overrides the
\* message, the message M, newline, S, and no marker: S is appended once.
C2_MarkerAppendedOnce ==
  \A a \in Addresses :
    (hist[a].origin = "event" /\ hist[a].calls >= 1 /\ ~hist[a].overridden) =>
      /\ heap[a].message = hist[a].M \o "\n" \o hist[a].S
      /\ ~heap[a].hasMarker

C2_Witness ==
  \E a \in Addresses :
    /\ hist[a].origin = "event" /\ hist[a].calls >= 2 /\ ~hist[a].overridden
    /\ heap[a].message = "M\nS"

\* C3: when the resolved additionalMessage is a string, the payload handed to
\* sendError has exactly that string as its message, and the override is
\* the last call the handler makes before sendError.
C3_OverrideLast ==
  (Acted /\ isString(last.resolved.additionalMessage)) =>
    /\ Sent.payload.message = last.resolved.additionalMessage.s
    /\ Len(last.ops) >= 2
    /\ last.ops[Len(last.ops)] = "sendError"
    /\ last.ops[Len(last.ops) - 1] = "override"
    /\ Count(last.ops, "override") = 1

C3_Witness ==
  /\ Acted /\ Prebuilt /\ HasStackTrace(last.before)
  /\ last.resolved.additionalMessage = Msg
  /\ isObject(last.resolved.request)
  /\ Sent.payload.message = "override"

\* C4: a pre-built payload without a stack trace marker gets exactly one
\* logger.warn and is still sent; no invocation warns more than once, none
\* warns for a raw error value or for a payload whose marker it consumed.
C4_WarnOnce ==
  Acted =>
    /\ Warns <= 1
    /\ ~Prebuilt => Warns = 0
    /\ (Prebuilt /\ HasStackTrace(last.before)) => Warns = 0
    /\ (Prebuilt /\ ~HasStackTrace(last.before)) =>
         /\ Warns = 1
         /\ Count(last.ops, "sendError") = 1
         /\ Sent.address = last.err.n

C4_Witness ==
  /\ Acted /\ Prebuilt /\ ~last.before.hasMarker
  /\ Warns = 1
  /\ Sent.address = last.err.n

\* C5: every invocation calls sendError exactly once, as its last step, and
\* returns the object it sent; for an ErrorMessage argument that is the
\* caller's instance, otherwise an instance created by the call; the callback
\* is forwarded to sendError and is still to be invoked when report returns.
C5_SendOnceReturnSent ==
  Acted =>
    /\ Len(last.sent) = 1
    /\ Count(last.ops, "sendError") = 1
    /\ last.ops[Len(last.ops)] = "sendError"
    /\ last.returned = Sent.address
    /\ Prebuilt => (last.returned = last.err.n /\ ~last.fresh)
    /\ ~Prebuilt => (last.fresh /\ "new" \in {last.ops[k] : k \in DOMAIN last.ops})
    /\ Sent.callback = last.resolved.callback
    /\ isFunction(Sent.callback) => Sent.callback \in last.pendingAfter

C5_Witness ==
  /\ Acted /\ Prebuilt
  /\ last.returned = last.err.n
  /\ Sent.callback = Cb
  /\ Cb \in last.pendingAfter

\* C6: whatever the optional positions hold, the request is extracted only
\* when the resolved request is an object, the message overridden only
\* when the resolved additionalMessage is a string, and the callback given
\* to sendError is a function or absent.
C6_MisfitsAbsent ==
  Acted =>
    /\ (Extractions = 1) <=> isObject(last.resolved.request)
    /\ (Count(last.ops, "override") = 1) <=> isString(last.resolved.additionalMessage)
    /\ isFunction(Sent.callback) \/ Sent.callback = Undefined

C8_RequestMerged ==
  Acted =>
    IF isObject(last.resolved.request)
      THEN /\ Extractions = 1
           /\ \A k \in DOMAIN manualRequestInformationExtractor(last.resolved.request) :
                Sent.payload.http[k] = manualRequestInformationExtractor(last.resolved.request)[k]
      ELSE /\ Extractions = 0
           /\ Sent.payload.http = last.before.http

C8_Witness ==
  /\ Acted /\ Prebuilt /\ last.before.http = OldHttp
  /\ last.resolved.request = Req
  /\ Sent.payload.http["method"] = "GET" /\ Sent.payload.http["url"] = "/x"

\* C9: after n >= 1 report calls on a payload that started with a non-empty
\* stack trace marker, the marker is gone, n - 1 warnings were logged for it
\* and it was sent n times.
C9_WarnsAfterFirst ==
  \A a \in Addresses :
    (hist[a].S # "" /\ hist[a].calls >= 1) =>
      /\ ~heap[a].hasMarker
      /\ hist[a].warns = hist[a].calls - 1
      /\ hist[a].sends = hist[a].calls

C9_Witness ==
  \E a \in Addresses : hist[a].S # "" /\ hist[a].calls = 2 /\ hist[a].warns = 1

Range(f) == {f[k] : k \in DOMAIN f}

====
